---------------------------- MODULE Spec2Model ----------------------------
(***************************************************************************)
(* Tiered notifications: the hook entry point (main), the activity store   *)
(* (SessionTracker), the router (TieredNotifier) and the detached delay    *)
(* script, as a state machine.  Every invocation of the tool is a process  *)
(* of its own; all of them share one activity file and one wall clock.     *)
(***************************************************************************)
EXTENDS Integers, Sequences, FiniteSets, TLC

\* ------------------------------------------------------------------ bounds
NumProcs == 3          \* invocations of the tool (and API calls) in one run
MaxTime == 2           \* the wall clock runs 0..MaxTime (whole seconds)
MaxDelay == 1          \* delay_seconds is drawn from 1..MaxDelay
MaxNotifications == 1  \* notification events among them (each may launch a task)
NumRouterProcs == 2    \* invocations in a run of the router specification
NumCallers == 2        \* direct callers of the tracker in the store specification
MaxThreshold == 1      \* idle_threshold of an is_session_idle call, 0..MaxThreshold

Procs == 1..NumProcs
Sessions == {"s1", "s2"}
NoSession == "none"    \* the event carries no session_id (None)
None == -1             \* dict.get(session_id) found no entry

\* ------------------------------------------------------- the activity file
\* ~/.claude/session_activity.json.  kind: "absent" (never created), "empty"
\* (opened with mode "w" and truncated, nothing written yet), "map" (a JSON
\* object session -> timestamp) or "corrupt" (bytes that are no JSON value).
\* len is the extent of the bytes on disk, counted in entries.
EmptyMap == [s \in Sessions |-> None]
AbsentFile == [kind |-> "absent", data |-> EmptyMap, len |-> 0]
TruncatedFile == [kind |-> "empty", data |-> EmptyMap, len |-> 0]
Entries(d) == Cardinality({s \in Sessions : d[s] # None})
MapFile(d) == [kind |-> "map", data |-> d, len |-> Entries(d)]
CorruptFile(n) == [kind |-> "corrupt", data |-> EmptyMap, len |-> n]

\* activity_file.exists()
Exists(f) == f.kind # "absent"
\* json.load(f) returns a dict; an empty or garbled file raises JSONDecodeError
Parsable(f) == f.kind = "map"

\* json.dump(activity_data, f) and the close of a file opened with mode "w":
\* the bytes go to offset 0 of whatever the file holds by now.  When another
\* writer has written a longer document since this writer's truncation, the
\* tail of that document stays behind the new bytes and the file is garbage.
DumpOver(f, d) ==
    IF Entries(d) < f.len THEN CorruptFile(f.len) ELSE MapFile(d)

\* ---------------------------------------------------------- configuration
TierLists == {<<>>, <<"macos">>, <<"ntfy">>, <<"macos", "ntfy">>, <<"ntfy", "macos">>}
\* NotificationConfig as _load_config builds it: enabled_tiers, delayed_tiers
\* and delay_seconds (tier_configs are opaque; default_tier is not read here).
\* delayed_tiers is a JSON list: a name may stand in it more than once.
DelayedLists == TierLists \cup {<<"ntfy", "ntfy">>}
Configs == [enabled : TierLists, delayed : DelayedLists, delay : 1..MaxDelay]
\* self.tiers of TieredNotifier.__init__
Registry == {"macos", "ntfy"}

InSeq(x, s) == \E i \in 1..Len(s) : s[i] = x

\* immediate_tiers of send_tiered_notification
ImmediateTiers(c) == SelectSeq(c.enabled, LAMBDA t : ~InSeq(t, c.delayed))

\* ------------------------------------------------------------------ tiers
\* MacOSNotificationTier.send_notification.  primary is what running
\* terminal-notifier does, secondary what running osascript does: "ok" (exit
\* status 0), "nonzero" (CalledProcessError) or "missing" (no such
\* executable: FileNotFoundError, which neither except clause names).
MacOSSend(primary, secondary) ==
    CASE primary = "ok" -> "true"
      [] primary = "nonzero" ->
            (CASE secondary = "ok" -> "true"
               [] secondary = "nonzero" -> "false"
               [] OTHER -> "raise")
      [] OTHER -> "raise"

\* NtfyNotificationTier.send_notification.  http is the outcome of
\* requests.post: "200", "other" (another status) or "neterr" (a
\* requests.RequestException).
NtfySend(http) == IF http = "200" THEN "true" ELSE "false"

Mechanism == {"ok", "nonzero", "missing"}
Http == {"200", "other", "neterr"}
\* What the outside world does during one pass over the immediate tiers.
\* MacOSNotificationTier.is_available runs osascript: where it answered True,
\* osascript is not missing.
Worlds == {w \in [avail : [Registry -> BOOLEAN], primary : Mechanism,
                  secondary : Mechanism, http : Http] :
               w.avail["macos"] => w.secondary # "missing"}

\* tier.send_notification(title, message) of the tier registered as t
TierSend(t, w) ==
    IF t = "macos" THEN MacOSSend(w.primary, w.secondary) ELSE NtfySend(w.http)

\* The for loop of send_tiered_notification over tiers[i..], entered with
\* acc: success is the code's flag; asked, attempted and ok are the tiers
\* whose is_available was called, whose send was called and whose send
\* returned True, in order; raised: an exception left the loop (and
\* send_tiered_notification).
NoPass == [success |-> FALSE, asked |-> <<>>, attempted |-> <<>>, ok |-> <<>>,
           raised |-> FALSE]

RECURSIVE ImmediateFrom(_, _, _, _)
ImmediateFrom(tiers, i, w, acc) ==
    IF i > Len(tiers) THEN acc
    ELSE LET t == tiers[i] IN
         IF t \notin Registry THEN ImmediateFrom(tiers, i + 1, w, acc)
         ELSE LET a == [acc EXCEPT !.asked = Append(@, t)] IN
              IF ~w.avail[t] THEN ImmediateFrom(tiers, i + 1, w, a)
              ELSE LET r == TierSend(t, w)
                       b == [a EXCEPT !.attempted = Append(@, t)]
                   IN  CASE r = "raise" -> [b EXCEPT !.raised = TRUE]
                         [] r = "true" ->
                              ImmediateFrom(tiers, i + 1, w,
                                  [b EXCEPT !.success = TRUE, !.ok = Append(@, t)])
                         [] OTHER -> ImmediateFrom(tiers, i + 1, w, b)

ImmediateLoopResult(c, w) == ImmediateFrom(ImmediateTiers(c), 1, w, NoPass)

\* The for loop of the delay script over the captured list
\* [(name, tier_configs.get(name, {})) for name in delayed_tiers], inside one try:
\* only "ntfy" has a branch; posts[i] is what requests.post does for the
\* i-th captured tier ("ok": it returns, whatever the status; "raise").
\* The result is the list of tiers on which requests.post was called.
RECURSIVE DeferredFrom(_, _, _, _)
DeferredFrom(captured, i, posts, sent) ==
    IF i > Len(captured) THEN sent
    ELSE IF captured[i] # "ntfy" THEN DeferredFrom(captured, i + 1, posts, sent)
    ELSE IF posts[i] = "raise" THEN Append(sent, captured[i])
    ELSE DeferredFrom(captured, i + 1, posts, Append(sent, captured[i]))

DeferredLoopResult(captured, posts) == DeferredFrom(captured, 1, posts, <<>>)

\* ---------------------------------------------------------- idle checks
\* Mutants of is_session_idle: an inclusive comparison; an except clause
\* that answers False.
IsSessionIdleReadInclusive(f, s, threshold, t) ==
    IF ~Parsable(f) THEN TRUE
    ELSE IF f.data[s] = None THEN TRUE
    ELSE (t - f.data[s]) >= threshold

IsSessionIdleReadFailClosed(f, s, threshold, t) ==
    IF ~Parsable(f) THEN FALSE
    ELSE IF f.data[s] = None THEN TRUE
    ELSE (t - f.data[s]) > threshold

\* SessionTracker.is_session_idle once the file is known to exist: the read
\* of the file f at time t.
IsSessionIdleRead(f, s, threshold, t) ==
    IF ~Parsable(f) THEN TRUE
    ELSE IF f.data[s] = None THEN TRUE
    ELSE (t - f.data[s]) > threshold

\* Mutant of the delay script's check: an inclusive comparison.
ScriptIdleReadInclusive(f, s, delay, t) ==
    IF ~Parsable(f) THEN TRUE
    ELSE IF f.data[s] # None THEN (t - f.data[s]) >= delay
    ELSE TRUE

\* Mutant of the delay script's check: any entry at all for the session
\* counts as activity.
ScriptIdleReadAnyEntry(f, s, delay, t) ==
    IF ~Parsable(f) THEN TRUE
    ELSE f.data[s] = None

\* The idle check of the delay script once the file is known to exist.
ScriptIdleRead(f, s, delay, t) ==
    IF ~Parsable(f) THEN TRUE
    ELSE IF f.data[s] # None THEN (t - f.data[s]) > delay
    ELSE TRUE

\* ------------------------------------------------------------- hook events
\* json.load(sys.stdin): kind "malformed" is input that is no JSON, "tool" an
\* object with tool_name, "stop" one with stop_hook_active, "notification"
\* one with neither.  sid is its session_id (NoSession: none, or empty).
\* plain: title, message and session_id hold no character (a double quote, a
\* backslash, a line break) that ends or breaks the string literals the
\* delay script's text embeds them in.
SessionIds == Sessions \cup {NoSession}
Events == [kind : {"tool", "stop"}, sid : SessionIds, thr : {0}, plain : {TRUE}]
            \cup [kind : {"notification"}, sid : SessionIds, thr : {0}, plain : BOOLEAN]
            \cup [kind : {"malformed"}, sid : {NoSession}, thr : {0}, plain : {TRUE}]
\* Direct calls of the SessionTracker methods.
Calls == [kind : {"mark_activity"}, sid : Sessions, thr : {0}, plain : {TRUE}]
           \cup [kind : {"is_session_idle"}, sid : Sessions, thr : 0..MaxThreshold,
                 plain : {TRUE}]
NoEvent == [kind |-> "unread", sid |-> NoSession, thr |-> 0, plain |-> TRUE]

\* The events that reach the activity store or launch a delay script: those
\* with a session_id (of the two activity markers, one).
SessionEvents == {e \in Events : e.sid # NoSession /\ e.kind # "stop"}

\* "tool_name" in input_data or "stop_hook_active" in input_data
IsActivityEvent(e) == e.kind \in {"tool", "stop"}

\* A delay script: st is where it is, sched when it began its sleep, idle,
\* checkedAt and read its verdict, the time of its check and the entry it
\* read, sent the tiers it posted to.  History: covered (see CoveredBy) and
\* orphan (the invocation that launched it had exited when it woke).
NoTask == [st |-> "none", sid |-> NoSession, sched |-> 0, idle |-> FALSE,
           checkedAt |-> 0, read |-> None, sent |-> <<>>, covered |-> {},
           orphan |-> FALSE]
NoObs == [file |-> AbsentFile, at |-> 0]

Max(a, b) == IF a > b THEN a ELSE b

VARIABLES
    now,        \* time.time(), in whole seconds
    file,       \* the activity file
    cfg,        \* the configuration every invocation loads
    pc,         \* where each invocation is
    ev,         \* the event (or call) each invocation handles
    adata,      \* mark_activity's local activity_data
    ts,         \* the timestamp mark_activity took (None: none yet)
    imm,        \* send_tiered_notification's pass over the immediate tiers
    exitCode,   \* the invocation's exit status (None: still running)
    task,       \* the delay script each invocation launched
    result,     \* what is_session_idle returned
    obs,        \* history: the file is_session_idle read, and when
    began,      \* history: the tasks that slept when mark_activity was entered
    hi          \* history: the largest timestamp ever on disk, per session

vars == <<now, file, cfg, pc, ev, adata, ts, imm, exitCode,
          task, result, obs, began, hi>>

\* Every variable but the configuration, as it is before the first invocation.
InitRest ==
    /\ now = 0
    /\ file = AbsentFile
    /\ pc = [p \in Procs |-> "start"]
    /\ ev = [p \in Procs |-> NoEvent]
    /\ adata = [p \in Procs |-> EmptyMap]
    /\ ts = [p \in Procs |-> None]
    /\ imm = [p \in Procs |-> NoPass]
    /\ exitCode = [p \in Procs |-> None]
    /\ task = [p \in Procs |-> NoTask]
    /\ result = [p \in Procs |-> FALSE]
    /\ obs = [p \in Procs |-> NoObs]
    /\ began = [p \in Procs |-> {}]
    /\ hi = [s \in Sessions |-> None]

\* The built-in defaults of _load_config, with a delay of the model's scale.
DefaultConfigs ==
    [enabled : {<<"macos", "ntfy">>}, delayed : {<<"ntfy">>}, delay : 1..MaxDelay]

Init == cfg \in DefaultConfigs /\ InitRest

\* The tracker reads no configuration.
InitStore ==
    /\ cfg = [enabled |-> <<"macos", "ntfy">>, delayed |-> <<"ntfy">>, delay |-> 1]
    /\ InitRest

\* Any configuration file.
InitAnyConfig == cfg \in Configs /\ InitRest

\* Invocations are interchangeable: they are numbered in the order they start.
MayStart(p) == pc[p] = "start" /\ \A q \in Procs : q < p => pc[q] # "start"

\* Session ids are opaque and interchangeable: the first one seen is "s1".
FirstSeen(p, s) == s = "s2" => \E q \in Procs : q # p /\ ev[q].sid = "s1"

Notifications == Cardinality({q \in Procs : ev[q].kind = "notification"})

Sleeping == {q \in Procs : task[q].st = "pending"}

\* ------------------------------------------------------------------ main
\* main, lines 315-331: read the event, one of E, and classify it.
ReadInput(p, E) ==
    /\ MayStart(p)
    /\ \E e \in E :
        /\ e.kind = "notification" => Notifications < MaxNotifications
        /\ FirstSeen(p, e.sid)
        /\ ev' = [ev EXCEPT ![p] = e]
        /\ IF e.kind = "malformed"
           THEN /\ pc' = [pc EXCEPT ![p] = "exited"]
                /\ exitCode' = [exitCode EXCEPT ![p] = 1]
                /\ began' = began
           ELSE IF IsActivityEvent(e)
           THEN IF e.sid # NoSession
                THEN /\ pc' = [pc EXCEPT ![p] = "ma_exists"]
                     /\ began' = [began EXCEPT ![p] = Sleeping]
                     /\ exitCode' = exitCode
                ELSE /\ pc' = [pc EXCEPT ![p] = "exited"]
                     /\ exitCode' = [exitCode EXCEPT ![p] = 0]
                     /\ began' = began
           ELSE /\ pc' = [pc EXCEPT ![p] = "imm"]
                /\ UNCHANGED <<exitCode, began>>
    /\ UNCHANGED <<now, file, cfg, adata, ts, imm, task, result, obs, hi>>

\* ---------------------------------------------------------- mark_activity
\* if self.activity_file.exists()
MaExists(p) ==
    /\ pc[p] = "ma_exists"
    /\ IF Exists(file)
       THEN pc' = [pc EXCEPT ![p] = "ma_load"] /\ adata' = adata
       ELSE pc' = [pc EXCEPT ![p] = "ma_stamp"] /\ adata' = [adata EXCEPT ![p] = EmptyMap]
    /\ UNCHANGED <<now, file, cfg, ev, ts, imm, exitCode, task, result, obs, began, hi>>

\* activity_data = json.load(f); an exception ends the call (except: pass)
MaLoad(p) ==
    /\ pc[p] = "ma_load"
    /\ IF Parsable(file)
       THEN pc' = [pc EXCEPT ![p] = "ma_stamp"] /\ adata' = [adata EXCEPT ![p] = file.data]
       ELSE pc' = [pc EXCEPT ![p] = "ma_ret"] /\ adata' = adata
    /\ UNCHANGED <<now, file, cfg, ev, ts, imm, exitCode, task, result, obs, began, hi>>

\* activity_data[session_id] = time.time()
MaStamp(p) ==
    /\ pc[p] = "ma_stamp"
    /\ adata' = [adata EXCEPT ![p][ev[p].sid] = now]
    /\ ts' = [ts EXCEPT ![p] = now]
    /\ pc' = [pc EXCEPT ![p] = "ma_open"]
    /\ UNCHANGED <<now, file, cfg, ev, imm, exitCode, task, result, obs, began, hi>>

\* open(self.activity_file, "w"): the file is created or truncated
MaOpen(p) ==
    /\ pc[p] = "ma_open"
    /\ file' = TruncatedFile
    /\ pc' = [pc EXCEPT ![p] = "ma_dump"]
    /\ UNCHANGED <<now, cfg, ev, adata, ts, imm, exitCode, task, result, obs, began, hi>>

\* json.dump(activity_data, f), the close of the file, and the return (the
\* local activity_data is gone with it)
MaDump(p) ==
    /\ pc[p] = "ma_dump"
    /\ file' = DumpOver(file, adata[p])
    /\ hi' = [s \in Sessions |->
                IF Parsable(file') THEN Max(hi[s], file'.data[s]) ELSE hi[s]]
    /\ pc' = [pc EXCEPT ![p] = "ma_ret"]
    /\ adata' = [adata EXCEPT ![p] = EmptyMap]
    /\ UNCHANGED <<now, cfg, ev, ts, imm, exitCode, task, result, obs, began>>

\* main, line 326: sys.exit(0) after tracker.mark_activity(session_id)
ActivityExit(p) ==
    /\ pc[p] = "ma_ret"
    /\ IsActivityEvent(ev[p])
    /\ pc' = [pc EXCEPT ![p] = "exited"]
    /\ exitCode' = [exitCode EXCEPT ![p] = 0]
    /\ UNCHANGED <<now, file, cfg, ev, adata, ts, imm, task, result, obs, began, hi>>

\* ----------------------------------------------- send_tiered_notification
\* Lines 226-237: the pass over the immediate tiers.  An exception out of a
\* tier's send leaves send_tiered_notification and reaches main's
\* except Exception: sys.exit(1).
ImmediateLoop(p) ==
    /\ pc[p] = "imm"
    /\ \E r \in {ImmediateLoopResult(cfg, w) : w \in Worlds} :
        /\ imm' = [imm EXCEPT ![p] = r]
        /\ IF r.raised
           THEN /\ pc' = [pc EXCEPT ![p] = "exited"]
                /\ exitCode' = [exitCode EXCEPT ![p] = 1]
           ELSE /\ pc' = [pc EXCEPT ![p] = "sched"]
                /\ exitCode' = exitCode
    /\ UNCHANGED <<now, file, cfg, ev, adata, ts, task, result, obs, began, hi>>

\* if session_id and self.config.delayed_tiers:
ShouldSchedule(e, c) == e.sid # NoSession /\ c.delayed # <<>>

\* The text of the delay script is the f-string of lines 254-299 with title,
\* message and session_id pasted between double quotes: text that is not
\* plain makes it a script Python refuses to compile, which ends at once.
ScriptStart(e) == IF e.plain THEN "pending" ELSE "crashed"

\* Lines 239-241 and _schedule_delayed_notifications: the delay script is
\* written and started with Popen; it begins its sleep.
Schedule(p) ==
    /\ pc[p] = "sched"
    /\ IF ShouldSchedule(ev[p], cfg)
       THEN task' = [task EXCEPT ![p] = [NoTask EXCEPT !.st = ScriptStart(ev[p]),
                                                       !.sid = ev[p].sid,
                                                       !.sched = now]]
       ELSE task' = task
    /\ pc' = [pc EXCEPT ![p] = "report"]
    /\ UNCHANGED <<now, file, cfg, ev, adata, ts, imm, exitCode, result, obs, began, hi>>

\* main, lines 339-344: the exit status is the immediate result
ExitStatus(ok) == IF ok THEN 0 ELSE 1

\* Mutant of PopenBlocks: the caller waits for the script it started.
PopenWaits(t) == t.st \in {"pending", "load", "send"}

\* subprocess.Popen returns as soon as the script t is started; nothing in
\* _schedule_delayed_notifications or main waits for it.
PopenBlocks(t) == FALSE

Report(p) ==
    /\ pc[p] = "report"
    /\ ~PopenBlocks(task[p])
    /\ pc' = [pc EXCEPT ![p] = "exited"]
    /\ exitCode' = [exitCode EXCEPT ![p] = ExitStatus(imm[p].success)]
    /\ UNCHANGED <<now, file, cfg, ev, adata, ts, imm, task, result, obs, began, hi>>

\* ------------------------------------------------------- the delay script
\* time.sleep(delay_seconds) returns, no sooner than delay_seconds after the
\* start; then activity_file.exists().
SleepOver(t, c) == now >= t.sched + c.delay

\* History: the mark_activity calls for the task's session that were entered
\* while the task slept and have returned by the time it wakes.
CoveredBy(p) ==
    {q \in Procs : /\ p \in began[q]
                   /\ ev[q].sid = task[p].sid
                   /\ pc[q] \in {"ma_ret", "exited"}}

TaskWake(p) ==
    /\ task[p].st = "pending"
    /\ SleepOver(task[p], cfg)
    /\ IF Exists(file)
       THEN task' = [task EXCEPT ![p].st = "load", ![p].covered = CoveredBy(p),
                                 ![p].orphan = (pc[p] = "exited")]
       ELSE task' = [task EXCEPT ![p].st = "send", ![p].idle = TRUE,
                                 ![p].checkedAt = now, ![p].covered = CoveredBy(p),
                                 ![p].orphan = (pc[p] = "exited")]
    /\ UNCHANGED <<now, file, cfg, pc, ev, adata, ts, imm, exitCode, result, obs, began, hi>>

\* json.load, activity_data.get and the comparison with time.time()
TaskLoad(p) ==
    /\ task[p].st = "load"
    /\ LET idle == ScriptIdleRead(file, task[p].sid, cfg.delay, now) IN
       task' = [task EXCEPT ![p].st = IF idle THEN "send" ELSE "done",
                            ![p].idle = idle,
                            ![p].checkedAt = now,
                            ![p].read = IF Parsable(file) THEN file.data[task[p].sid]
                                        ELSE None]
    /\ UNCHANGED <<now, file, cfg, pc, ev, adata, ts, imm, exitCode, result, obs, began, hi>>

\* if is_idle: the loop over the captured tiers
TaskSend(p) ==
    /\ task[p].st = "send"
    /\ \E posts \in [1..Len(cfg.delayed) -> {"ok", "raise"}] :
        task' = [task EXCEPT ![p].st = "done",
                             ![p].sent = DeferredLoopResult(cfg.delayed, posts)]
    /\ UNCHANGED <<now, file, cfg, pc, ev, adata, ts, imm, exitCode, result, obs, began, hi>>

\* --------------------------------------------------------------- the clock
Tick ==
    /\ now < MaxTime
    /\ now' = now + 1
    /\ UNCHANGED <<file, cfg, pc, ev, adata, ts, imm, exitCode, task, result, obs, began, hi>>

\* ------------------------------------------- calls of the tracker's methods
\* A caller enters mark_activity(sid) or is_session_idle(sid, thr).
EnterCall(p) ==
    /\ MayStart(p)
    /\ \E c \in Calls :
        /\ FirstSeen(p, c.sid)
        /\ ev' = [ev EXCEPT ![p] = c]
        /\ IF c.kind = "mark_activity"
           THEN pc' = [pc EXCEPT ![p] = "ma_exists"]
           ELSE pc' = [pc EXCEPT ![p] = "ii_exists"]
    /\ UNCHANGED <<now, file, cfg, adata, ts, imm, exitCode, task, result, obs, began, hi>>

\* is_session_idle: if not self.activity_file.exists(): return True
IdleExists(p) ==
    /\ pc[p] = "ii_exists"
    /\ IF Exists(file)
       THEN pc' = [pc EXCEPT ![p] = "ii_load"] /\ UNCHANGED <<result, obs>>
       ELSE /\ pc' = [pc EXCEPT ![p] = "ii_ret"]
            /\ result' = [result EXCEPT ![p] = TRUE]
            /\ obs' = [obs EXCEPT ![p] = [file |-> file, at |-> now]]
    /\ UNCHANGED <<now, file, cfg, ev, adata, ts, imm, exitCode, task, began, hi>>

\* is_session_idle: the read, the lookup and the comparison
IdleLoad(p) ==
    /\ pc[p] = "ii_load"
    /\ pc' = [pc EXCEPT ![p] = "ii_ret"]
    /\ result' = [result EXCEPT ![p] = IsSessionIdleRead(file, ev[p].sid, ev[p].thr, now)]
    /\ obs' = [obs EXCEPT ![p] = [file |-> file, at |-> now]]
    /\ UNCHANGED <<now, file, cfg, ev, adata, ts, imm, exitCode, task, began, hi>>

\* --------------------------------------------------------- specifications
\* The tool as its hook runs it: invocations of main, the delay scripts they
\* launch, and the clock.
Next ==
    \/ \E p \in Procs : ReadInput(p, SessionEvents)
    \/ \E p \in Procs : MaExists(p)
    \/ \E p \in Procs : MaLoad(p)
    \/ \E p \in Procs : MaStamp(p)
    \/ \E p \in Procs : MaOpen(p)
    \/ \E p \in Procs : MaDump(p)
    \/ \E p \in Procs : ActivityExit(p)
    \/ \E p \in Procs : ImmediateLoop(p)
    \/ \E p \in Procs : Schedule(p)
    \/ \E p \in Procs : Report(p)
    \/ \E p \in Procs : TaskWake(p)
    \/ \E p \in Procs : TaskLoad(p)
    \/ \E p \in Procs : TaskSend(p)
    \/ Tick

Spec == Init /\ [][Next]_vars

\* The activity store called directly: concurrent mark_activity and
\* is_session_idle calls, and the clock.
StoreProcs == 1..NumCallers

NextStore ==
    \/ \E p \in StoreProcs : EnterCall(p)
    \/ \E p \in StoreProcs : MaExists(p)
    \/ \E p \in StoreProcs : MaLoad(p)
    \/ \E p \in StoreProcs : MaStamp(p)
    \/ \E p \in StoreProcs : MaOpen(p)
    \/ \E p \in StoreProcs : MaDump(p)
    \/ \E p \in StoreProcs : IdleExists(p)
    \/ \E p \in StoreProcs : IdleLoad(p)
    \/ Tick

SpecStore == InitStore /\ [][NextStore]_vars

\* The router under every configuration: NumRouterProcs invocations.
RouterProcs == 1..NumRouterProcs

NextRouter ==
    \/ \E p \in RouterProcs : ReadInput(p, Events)
    \/ \E p \in RouterProcs : MaExists(p)
    \/ \E p \in RouterProcs : MaLoad(p)
    \/ \E p \in RouterProcs : MaStamp(p)
    \/ \E p \in RouterProcs : MaOpen(p)
    \/ \E p \in RouterProcs : MaDump(p)
    \/ \E p \in RouterProcs : ActivityExit(p)
    \/ \E p \in RouterProcs : ImmediateLoop(p)
    \/ \E p \in RouterProcs : Schedule(p)
    \/ \E p \in RouterProcs : Report(p)
    \/ \E p \in RouterProcs : TaskWake(p)
    \/ \E p \in RouterProcs : TaskLoad(p)
    \/ \E p \in RouterProcs : TaskSend(p)
    \/ Tick

SpecRouter == InitAnyConfig /\ [][NextRouter]_vars

\* The steps of invocation p itself (not those of the delay script it
\* launched, not the clock).
ParentStep(p) ==
    \/ MaExists(p) \/ MaLoad(p) \/ MaStamp(p) \/ MaOpen(p) \/ MaDump(p)
    \/ ActivityExit(p) \/ ImmediateLoop(p) \/ Schedule(p) \/ Report(p)

\* The router under the default configuration, every started invocation
\* running on: the operating system schedules each process, and none of its
\* steps waits for another process.  Nothing makes the clock advance or a
\* delay script wake.
SpecParent ==
    /\ Init
    /\ [][NextRouter]_vars
    /\ \A p \in RouterProcs : WF_vars(ParentStep(p))

\* ------------------------------------------------------- send_notification
\* TieredNotifier.send_notification(title, message, tier) called directly.
NumSenders == 1        \* callers of send_notification in one run

NoTier == "omitted"    \* tier is None
\* The names a caller or a configuration may give: the registered ones and
\* one that is not registered.
TierNames == Registry \cup {"other"}
SendCalls == [kind : {"send_notification"}, sid : {NoSession}, thr : {0},
              plain : {TRUE}, tier : TierNames \cup {NoTier}]
\* The configurations with their default_tier.
ApiConfigs == [enabled : TierLists, delayed : {<<"ntfy">>}, delay : {1},
               default : TierNames]

InitApi == cfg \in ApiConfigs /\ InitRest

\* if tier is None: tier = self.config.default_tier
ResolveTier(tier, c) == IF tier = NoTier THEN c.default ELSE tier

\* Mutant of SendNotification: the enabled_tiers test is left out.
SendNotificationAnyTier(tier, c, w) ==
    LET t == ResolveTier(tier, c) IN
    IF t \notin Registry THEN NoPass
    ELSE IF ~w.avail[t] THEN [NoPass EXCEPT !.asked = <<t>>]
    ELSE LET r == TierSend(t, w) IN
         [success |-> r = "true", asked |-> <<t>>, attempted |-> <<t>>,
          ok |-> IF r = "true" THEN <<t>> ELSE <<>>, raised |-> r = "raise"]

\* send_notification in the world w: success is the value returned, asked
\* and attempted the tier whose is_available and whose send were called,
\* raised: the tier's send raised, and send_notification with it.
SendNotification(tier, c, w) ==
    LET t == ResolveTier(tier, c) IN
    IF t \notin Registry THEN NoPass
    ELSE IF ~InSeq(t, c.enabled) THEN NoPass
    ELSE IF ~w.avail[t] THEN [NoPass EXCEPT !.asked = <<t>>]
    ELSE LET r == TierSend(t, w) IN
         [success |-> r = "true", asked |-> <<t>>, attempted |-> <<t>>,
          ok |-> IF r = "true" THEN <<t>> ELSE <<>>, raised |-> r = "raise"]

\* A caller enters send_notification with a tier name, or none.
EnterSend(p) ==
    /\ MayStart(p)
    /\ \E c \in SendCalls :
        /\ ev' = [ev EXCEPT ![p] = c]
        /\ pc' = [pc EXCEPT ![p] = "sn"]
    /\ UNCHANGED <<now, file, cfg, adata, ts, imm, exitCode, task, result, obs, began, hi>>

\* The call runs in some world and ends.  History: obs is that world.
SendReturn(p) ==
    /\ pc[p] = "sn"
    /\ \E w \in Worlds :
        /\ imm' = [imm EXCEPT ![p] = SendNotification(ev[p].tier, cfg, w)]
        /\ obs' = [obs EXCEPT ![p] = w]
    /\ pc' = [pc EXCEPT ![p] = "sn_ret"]
    /\ UNCHANGED <<now, file, cfg, ev, adata, ts, exitCode, task, result, began, hi>>

SendProcs == 1..NumSenders

NextSendVia ==
    \/ \E p \in SendProcs : EnterSend(p)
    \/ \E p \in SendProcs : SendReturn(p)

SpecSendVia == InitApi /\ [][NextSendVia]_vars

\* ------------------------------------------------------------------ claims
\* The delay scripts that have made their idle check.
Resolved == {p \in Procs : task[p].st \in {"send", "done"}}

\* The latest timestamp any mark_activity call took for session s (None: none).
Marks(s) == {ts[q] : q \in {r \in Procs : ev[r].sid = s /\ ts[r] # None}}
LastMark(s) == IF Marks(s) = {} THEN None
               ELSE CHOOSE m \in Marks(s) : \A n \in Marks(s) : n <= m

\* The is_session_idle calls that have returned.
Returned == {p \in Procs : pc[p] = "ii_ret"}
\* What such a call found for its session: None when the file was missing,
\* unparsable or without the entry.
Found(p) == IF Parsable(obs[p].file) THEN obs[p].file.data[ev[p].sid] ELSE None

\* C1: a mark_activity(s) call that starts and returns while the task for s
\* sleeps makes the task resolve Suppressed, with no send, under every
\* interleaving.  Stated for the tasks that check exactly delay seconds after
\* their start, so that the activity lies within the threshold.
C1_ActivityDuringSleepSuppresses ==
    \A p \in Resolved :
        (task[p].covered # {} /\ task[p].checkedAt = task[p].sched + cfg.delay)
            => (~task[p].idle /\ task[p].sent = <<>>)

\* C2 as claimed: activity marked at T0, the task scheduled at T0, no later
\* activity for the session: the check at T0 + delay judges the session idle.
C2_FiresAtDelay ==
    \A p \in Resolved :
        (/\ LastMark(task[p].sid) = task[p].sched
         /\ task[p].checkedAt = task[p].sched + cfg.delay)
            => task[p].idle

\* C2 as amended: activity marked at T0, the task scheduled at T0, no later
\* activity for the session: a check made later than T0 + delay judges the
\* session idle and the task posts to the deferred push tier; a check at
\* T0 + delay that reads the entry T0 judges it not idle and sends nothing.
C2_FiresAfterDelay ==
    \A p \in Resolved :
        LastMark(task[p].sid) = task[p].sched =>
            /\ task[p].checkedAt > task[p].sched + cfg.delay =>
                  /\ task[p].idle
                  /\ task[p].st = "done" => task[p].sent = <<"ntfy">>
            /\ (/\ task[p].checkedAt = task[p].sched + cfg.delay
                /\ task[p].read = task[p].sched) =>
                  /\ ~task[p].idle
                  /\ task[p].sent = <<>>

\* C2, the case reached: a task whose session was last marked at its start,
\* checking later than start + delay, fires and posts to ntfy.
C2_Witness ==
    \E p \in Procs :
        /\ task[p].st = "done"
        /\ LastMark(task[p].sid) = task[p].sched
        /\ task[p].checkedAt > task[p].sched + cfg.delay
        /\ task[p].idle
        /\ task[p].sent = <<"ntfy">>

\* C3 as claimed: with the entry T of the session's last mark_activity call
\* in the store, is_session_idle is false before T + threshold and true at
\* T + threshold and later.
C3_IdleFromThreshold ==
    \A p \in Returned :
        (Found(p) # None /\ Found(p) = LastMark(ev[p].sid)) =>
            /\ obs[p].at < Found(p) + ev[p].thr => ~result[p]
            /\ obs[p].at >= Found(p) + ev[p].thr => result[p]

\* C3 as amended: when is_session_idle reads the entry T that mark_activity
\* wrote for the session, it is false at every time up to and including
\* T + threshold and true at every later time.
C3_IdleAfterThreshold ==
    \A p \in Returned :
        Found(p) # None =>
            /\ obs[p].at <= Found(p) + ev[p].thr => ~result[p]
            /\ obs[p].at > Found(p) + ev[p].thr => result[p]

\* C3, the case reached: a check at exactly T + threshold, threshold > 0,
\* reads the entry T of the last mark_activity call and answers False.
C3_Witness ==
    \E p \in Returned :
        /\ Found(p) # None
        /\ Found(p) = LastMark(ev[p].sid)
        /\ ev[p].thr > 0
        /\ obs[p].at = Found(p) + ev[p].thr
        /\ ~result[p]

\* C4: is_session_idle is true, whatever the threshold, when the file is
\* missing, unparsable or without an entry for the session; it is false only
\* when it read an entry for the session in a parsable file.
C4_IdleWithoutEvidence ==
    \A p \in Returned :
        /\ (~Exists(obs[p].file) \/ ~Parsable(obs[p].file)
              \/ obs[p].file.data[ev[p].sid] = None) => result[p]
        /\ ~result[p] => (Parsable(obs[p].file) /\ obs[p].file.data[ev[p].sid] # None)

\* C4, the case reached: is_session_idle reads the file while a writer has it
\* truncated, with the largest threshold, and answers True.
C4_Witness ==
    \E p \in Returned :
        /\ obs[p].file.kind = "empty"
        /\ ev[p].thr = MaxThreshold
        /\ result[p]

\* C5: in every state the activity file is absent or a complete parsable
\* mapping.
C5_FileNeverPartial == file.kind \in {"absent", "map"}

\* C6: once the mark_activity calls of N invocations for N distinct sessions
\* have all returned, the store holds exactly those N entries, each with the
\* timestamp its call took.
Markers == {q \in Procs : IsActivityEvent(ev[q])}

C6_NoEntryLost ==
    (/\ Markers # {}
     /\ \A q \in Procs : pc[q] \in {"start", "exited"}
     /\ \A q, r \in Markers : q # r => ev[q].sid # ev[r].sid)
        => /\ Parsable(file)
           /\ \A q \in Markers : file.data[ev[q].sid] = ts[q] /\ ts[q] # None
           /\ \A s \in Sessions : (\A q \in Markers : ev[q].sid # s) => file.data[s] = None

\* C7: a session's stored timestamp never decreases: no state of the store
\* holds less than a value stored for the session before.
C7_TimestampsMonotone ==
    \A s \in Sessions :
        (Parsable(file) /\ file.data[s] # None) => file.data[s] >= hi[s]

\* C8: with no tier enabled, send_tiered_notification returns False and
\* nothing is sent, at once or by a delay script.
C8_NothingEnabledNothingSent ==
    cfg.enabled = <<>> =>
        \A p \in Procs :
            /\ imm[p].attempted = <<>>
            /\ ~imm[p].success
            /\ task[p].sent = <<>>

\* C9: send_tiered_notification returns True exactly when an available
\* immediate tier's send returned True, and every immediate tier is tried
\* (asked for availability, sent to when available) whatever the tiers before
\* it did.  Stated for the invocations that have exited.
KnownImmediate(c) == SelectSeq(ImmediateTiers(c), LAMBDA t : t \in Registry)

C9_ImmediateInclusiveOr ==
    \A p \in Procs :
        (ev[p].kind = "notification" /\ pc[p] = "exited") =>
            /\ exitCode[p] = 0 <=> imm[p].ok # <<>>
            /\ imm[p].asked = KnownImmediate(cfg)

\* C10: a notification event with a session id, under a configuration with
\* deferred tiers, always launches a delay script, whatever the immediate
\* tiers did.
C10_AlwaysScheduled ==
    \A p \in Procs :
        (/\ ev[p].kind = "notification"
         /\ ev[p].sid # NoSession
         /\ cfg.delayed # <<>>
         /\ pc[p] = "exited")
            => task[p].st # "none"

\* C11: a delay script posts only to tiers that are both enabled and
\* deferred; a tier listed as deferred but not enabled never receives a send
\* from a delay script.
C11_DeferredOnlyEnabled ==
    \A p \in Procs :
        \A i \in 1..Len(task[p].sent) :
            InSeq(task[p].sent[i], cfg.enabled) /\ InSeq(task[p].sent[i], cfg.delayed)

\* C12: an invocation for an event with a tool or stop marker exits 0, tries
\* no tier and launches no delay script; when the event carries a session id
\* its mark_activity call took the current time and wrote it to the store
\* (the store has held an entry at least that recent for the session); when
\* it carries none, no mark_activity call was made.
C12_ActivityEventRecorded ==
    \A p \in Procs :
        (IsActivityEvent(ev[p]) /\ pc[p] = "exited") =>
            /\ exitCode[p] = 0
            /\ imm[p] = NoPass
            /\ task[p] = NoTask
            /\ ev[p].sid # NoSession => (ts[p] # None /\ hi[ev[p].sid] >= ts[p])
            /\ ev[p].sid = NoSession => ts[p] = None

\* C13: every invocation that has ended has exit status 0 or 1: 0 exactly
\* when its event was an activity event or an immediate tier's send
\* succeeded, 1 otherwise.
C13_ExitStatus ==
    \A p \in Procs :
        pc[p] = "exited" =>
            /\ exitCode[p] \in {0, 1}
            /\ exitCode[p] = 0 <=> (IsActivityEvent(ev[p]) \/ imm[p].ok # <<>>)

\* C14: every launched delay script is Pending, making its one idle check, or
\* Resolved, never anything else; it makes the check no sooner than the delay
\* after its start, posts only when it judged the session idle (never after
\* Suppressed), and posts at most once per captured tier.
C14_TaskResolvesOnce ==
    \A p \in Procs :
        task[p].st # "none" =>
            /\ task[p].st \in {"pending", "load", "send", "done"}
            /\ task[p].st \in {"send", "done"} =>
                  task[p].checkedAt >= task[p].sched + cfg.delay
            /\ task[p].sent # <<>> => task[p].idle
            /\ Len(task[p].sent) <= Len(cfg.delayed)

\* C15: an invocation that has launched its delay script reaches its exit
\* whatever the script does, also when the script never wakes; the script
\* needs nothing from the invocation to resolve.
C15_ParentExitsRegardless ==
    \A p \in RouterProcs : (pc[p] = "report") ~> (pc[p] = "exited")

\* C15, the case reached: a delay script that woke after its invocation had
\* exited, and went on to post.
C15_Witness ==
    \E p \in RouterProcs :
        /\ pc[p] = "exited"
        /\ task[p].st = "done"
        /\ task[p].orphan
        /\ task[p].sent # <<>>

\* C16: a delay script that judged the session idle and has ended posted to
\* every captured tier its loop has a branch for, in the configured order: an
\* error while it handled one tier did not keep it from the tiers after it.
ScriptKnown(captured) == SelectSeq(captured, LAMBDA t : t = "ntfy")

C16_EveryDeferredTierAttempted ==
    \A p \in Procs :
        (task[p].st = "done" /\ task[p].idle) =>
            task[p].sent = ScriptKnown(cfg.delayed)

\* C17: a mark_activity(s) call that has returned took the current time and
\* wrote it: also one that found the file missing or unparsable, which it
\* treats as an empty mapping.  (A returned call without a timestamp is one
\* whose json.load failed.)
C17_MarkRecoversUnparsable ==
    \A p \in Procs :
        (ev[p].kind = "mark_activity" /\ pc[p] = "ma_ret") =>
            (ts[p] # None /\ hi[ev[p].sid] >= ts[p])

\* C18: whatever the mechanism behind a tier does (success, non-zero exit
\* status, another HTTP status, network failure, missing executable), the
\* tier's send returns a boolean: no pass over the tiers is ever left by an
\* exception out of a send, and every send in it either succeeded or failed.
C18_SendNeverRaises ==
    \A p \in Procs :
        /\ ~imm[p].raised
        /\ \A i \in 1..Len(imm[p].ok) : InSeq(imm[p].ok[i], imm[p].attempted)

\* C19 as claimed: activity marked for the session one second before the
\* delay script was started, and none later, makes the script judge the
\* session not idle.
C19_EarlierActivitySuppresses ==
    \A p \in Resolved :
        LastMark(task[p].sid) = task[p].sched - 1 => ~task[p].idle

\* C19 as amended: the script judges the session not idle only when it read
\* an entry no older than the delay at the time of its check; activity
\* marked before the script was started, and none later, is older than that
\* at every check, so the script judges the session idle and posts.
C19_EarlierActivityFires ==
    \A p \in Resolved :
        /\ (LastMark(task[p].sid) # None /\ LastMark(task[p].sid) < task[p].sched) =>
              /\ task[p].idle
              /\ task[p].st = "done" => task[p].sent = <<"ntfy">>
        /\ ~task[p].idle =>
              /\ task[p].read # None
              /\ task[p].checkedAt - task[p].read <= cfg.delay

\* C19, the case reached: a script that read the entry marked one second
\* before its start, judged the session idle and posted to ntfy.
C19_Witness ==
    \E p \in Procs :
        /\ task[p].st = "done"
        /\ LastMark(task[p].sid) = task[p].sched - 1
        /\ task[p].read = task[p].sched - 1
        /\ task[p].idle
        /\ task[p].sent = <<"ntfy">>

\* C20: send_notification takes the configured default for an omitted tier
\* name; when the name is not registered, not enabled, or the tier is not
\* available it returns False and the tier's send is not called; otherwise
\* the tier's send is called exactly once and what it does (True, False, or
\* an exception) is what send_notification does.
SendReturned == {p \in Procs : pc[p] = "sn_ret"}

=============================================================================
